---- MODULE Spec2Model ----
(***************************************************************************)
(* Movie watchlist web application (movie_library): the user store, the    *)
(* movie store, the per-browser sessions, the outbound mail and the clock, *)
(* with one action per HTTP route of routes.py.  Strings that the code     *)
(* inspects character by character (emails, passwords) are sequences of    *)
(* one-character strings; identifiers and fixed texts are strings.         *)
(***************************************************************************)
EXTENDS Integers, Sequences, FiniteSets, TLC

(* ------------------------------ bounds -------------------------------- *)
NumSessions == 2
MaxUsers == 2
MaxMovies == 1
MaxMail == 1

(* ------------------------- program constants --------------------------- *)
MinPasswordLen == 8
MinYear == 1878
MaxAge == 1800
SECRET_KEY == "SECRET_KEY"

VARIABLES users, movies, session, outbox, now, pending, resp

vars == <<users, movies, session, outbox, now, pending, resp>>

\* the browsers whose session the model follows
Sessions == 1 .. NumSessions

\* one more browser, which registers accounts and never signs in
Visitor == NumSessions + 1

Browsers == Sessions \cup {Visitor}

(* ------------------------------ inputs -------------------------------- *)
EmailUpperA == <<"A", "@", "x", ".", "c">>
EmailA == <<"a", "@", "x", ".", "c">>
EmailPaddedB == <<" ", "b", "@", "x", ".", "c", " ">>
EmailB == <<"b", "@", "x", ".", "c">>
EmailC == <<"c", "@", "x", ".", "c">>
EmailBad == <<"a", "x", ".", "c">>
Empty == <<>>


Password1 == <<"p", "a", "s", "s", "w", "o", "r", "d">>
Password2 == <<"p", "a", "s", "s", "w", "o", "r", "d", "1">>
PasswordShort == <<"p", "a", "s", "s", "w", "o", "r">>


Years == {0, MinYear - 1, MinYear}
Ratings == {5}
Titles == {"Metropolis"}
Directors == {"Fritz Lang"}
ClockValues == {0, MaxAge, MaxAge + 1}

(* --------------------------- string helpers --------------------------- *)
Lower(c) == CASE c = "A" -> "a" [] c = "B" -> "b" [] OTHER -> c

LowerStr(v) == [i \in 1 .. Len(v) |-> Lower(v[i])]

RECURSIVE LStrip(_)
LStrip(v) == IF v # <<>> /\ Head(v) = " " THEN LStrip(Tail(v)) ELSE v

RECURSIVE RStrip(_)
RStrip(v) ==
    IF v # <<>> /\ v[Len(v)] = " " THEN RStrip(SubSeq(v, 1, Len(v) - 1)) ELSE v

Strip(v) == RStrip(LStrip(v))

\* the filter with .lower() left out
NormalizeStripOnly(v) == Strip(v)

\* filters=[lambda value: value.strip().lower() ...]
Normalize(v) == LowerStr(Strip(v))

\* wtforms InputRequired: the submitted raw value is present and non-empty.
InputRequired(raw) == Len(raw) > 0

\* wtforms Email(): one "@", a non-empty local part, a dotted domain, no blanks.
IsEmail(v) ==
    LET ats == {i \in 1 .. Len(v) : v[i] = "@"}
    IN  /\ Cardinality(ats) = 1
        /\ \A i \in 1 .. Len(v) : v[i] # " "
        /\ \E at \in ats :
              /\ at > 1
              /\ \E dot \in (at + 2) .. (Len(v) - 1) : v[dot] = "."

\* wtforms Length(min=8)
LengthOk(v) == Len(v) >= MinPasswordLen

\* NumberRange with its minimum one year early
YearOkFrom1877(y) == y >= MinYear - 1

\* wtforms NumberRange(min=1878)
YearOk(y) == y >= MinYear

(* -------------------------- credential hasher ------------------------- *)
\* pbkdf2_sha256.hash / verify: a one-way digest that verifies exactly the
\* plaintext it was made from.
Hash(p) == [scheme |-> "pbkdf2-sha256", digest |-> p]

Verify(p, h) == h.scheme = "pbkdf2-sha256" /\ h.digest = p

(* ------------------------------ stores -------------------------------- *)
\* uuid.uuid4().hex: an identifier no earlier record carries.
NewId(prefix, n) == prefix \o ToString(n + 1)

Min(S) == CHOOSE m \in S : \A k \in S : m <= k

\* db.user.find_one({"email": e}): index of the first match, 0 for None.
FindUserByEmail(e) ==
    LET m == {i \in 1 .. Len(users) : users[i].email = e}
    IN  IF m = {} THEN 0 ELSE Min(m)

\* db.user.find_one({"_id": id})
FindUserById(id) ==
    LET m == {i \in 1 .. Len(users) : users[i]._id = id}
    IN  IF m = {} THEN 0 ELSE Min(m)

\* db.movie.find_one({"_id": id})
FindMovieById(id) ==
    LET m == {i \in 1 .. Len(movies) : movies[i]._id = id}
    IN  IF m = {} THEN 0 ELSE Min(m)

\* db.<collection>.update_one({"_id": id}, {"$set": {field: value}}): the first
\* matching document is changed, no document when none matches.
UpdateUserEmail(id, e) ==
    LET i == FindUserById(id)
    IN  IF i = 0 THEN users ELSE [users EXCEPT ![i].email = e]

\* update_many in place of update_one, matching every document
UpdateAllPasswords(id, h) == [i \in 1 .. Len(users) |-> [users[i] EXCEPT !.password = h]]

UpdateUserPassword(id, h) ==
    LET i == FindUserById(id)
    IN  IF i = 0 THEN users ELSE [users EXCEPT ![i].password = h]

PushUserMovie(id, mid) ==
    LET i == FindUserById(id)
    IN  IF i = 0 THEN users ELSE [users EXCEPT ![i].movies = Append(@, mid)]

\* User(_id=uuid4().hex, email=..., password=hash) and insert_one(asdict(user))
NewUser(e, p) ==
    [_id |-> NewId("u", Len(users)), email |-> e, password |-> Hash(p),
     movies |-> <<>>]

(* ------------------------------ session ------------------------------- *)
\* session.get(key): None when the key is absent.
Get(s, key) == IF key \in DOMAIN session[s] THEN session[s][key] ELSE "None"

\* session.get("email") is None / falsy: identity keys are never set to None
\* or to an empty value, so both tests are the absence of the key.
Anonymous(s) == "email" \notin DOMAIN session[s]

Authenticated(s) == {"user_id", "email"} \subseteq DOMAIN session[s]

\* session[key] = value
SetKey(d, key, value) == (key :> value) @@ d

(* ----------------------------- responses ------------------------------ *)
NoFlash == <<>>

Flash(msg, category) == <<[message |-> msg, category |-> category]>>

Redirect(route, target, flashes) ==
    [route |-> route, status |-> "redirect", target |-> target, flash |-> flashes]

Render(route, template, flashes) ==
    [route |-> route, status |-> "render", target |-> template, flash |-> flashes]

\* an exception no handler catches: the request is answered with a server error
ServerError(route) ==
    [route |-> route, status |-> "error", target |-> "500", flash |-> NoFlash]

LoginFailed == Flash("Login failed. Please check your email and password.", "danger")

ResetSent ==
    Flash("An email has been sent with instructions to reset your password.", "info")

(* --------------------------- reset token codec ------------------------ *)
\* URLSafeTimedSerializer(key).dumps(payload): payload, issue time and a
\* signature over both under the key.
Sign(key, payload, ts) == <<key, payload, ts>>

Dumps(key, payload, ts) ==
    [payload |-> payload, ts |-> ts, sig |-> Sign(key, payload, ts)]

\* User.get_reset_token
GetResetToken(u) == Dumps(SECRET_KEY, [user_id |-> u._id], now)

\* loads without max_age
LoadsUserIdNoExpiry(token) ==
    IF /\ token.sig = Sign(SECRET_KEY, token.payload, token.ts)
       /\ "user_id" \in DOMAIN token.payload
    THEN token.payload.user_id
    ELSE "None"

\* s.loads(token, max_age=1800)["user_id"]: "None" when the signature does
\* not match, the token is older than max_age or the payload lacks user_id (all
\* caught by the bare except).
LoadsUserId(token) ==
    IF /\ token.sig = Sign(SECRET_KEY, token.payload, token.ts)
       /\ now - token.ts <= MaxAge
       /\ "user_id" \in DOMAIN token.payload
    THEN token.payload.user_id
    ELSE "None"

Init ==
    /\ users = <<>>
    /\ movies = <<>>
    /\ session = [s \in Browsers |-> <<>>]
    /\ outbox = {}
    /\ now = 0
    /\ pending = [s \in Browsers |-> <<>>]
    /\ resp = Render("start", "none", NoFlash)

(* ------------------------------ requests ------------------------------ *)
\* A GET, a POST with every field left blank, a POST for each way one field
\* can fail, and the POSTs that pass the field validators.
GetRequest == [method |-> "GET"]

GoodEmails == {EmailUpperA, EmailA, EmailPaddedB}

GoodPasswords == {Password1, Password2}

RegisterRequests ==
    {GetRequest,
     [method |-> "POST", email |-> Empty, password |-> Empty, confirm_password |-> Empty],
     [method |-> "POST", email |-> EmailBad, password |-> Password1,
      confirm_password |-> Password1],
     [method |-> "POST", email |-> EmailA, password |-> PasswordShort,
      confirm_password |-> PasswordShort],
     [method |-> "POST", email |-> EmailA, password |-> Password1,
      confirm_password |-> Password2]}
    \cup {[method |-> "POST", email |-> e, password |-> p, confirm_password |-> p] :
             e \in GoodEmails, p \in GoodPasswords}

LoginRequests ==
    {GetRequest,
     [method |-> "POST", email |-> Empty, password |-> Empty],
     [method |-> "POST", email |-> EmailBad, password |-> Password1]}
    \cup [method : {"POST"}, email : GoodEmails, password : GoodPasswords]

\* an account can also move to an address nobody registered with
AccountRequests ==
    {GetRequest,
     [method |-> "POST", email |-> Empty, password |-> Empty],
     [method |-> "POST", email |-> EmailBad, password |-> Password1]}
    \cup [method : {"POST"}, email : {EmailA, EmailPaddedB, EmailC},
          password : GoodPasswords]

ResetRequests ==
    {GetRequest, [method |-> "POST", email |-> Empty],
     [method |-> "POST", email |-> EmailBad]}
    \cup [method : {"POST"}, email : GoodEmails]

ResetPasswordRequests ==
    {GetRequest,
     [method |-> "POST", password |-> Empty, confirm_password |-> Empty],
     [method |-> "POST", password |-> PasswordShort, confirm_password |-> PasswordShort],
     [method |-> "POST", password |-> Password1, confirm_password |-> Password2]}
    \cup {[method |-> "POST", password |-> p, confirm_password |-> p] :
             p \in GoodPasswords}

\* the two sign-up and sign-in submissions used where the claim is about the
\* movie routes
PlainRegisterRequests ==
    {[method |-> "POST", email |-> e, password |-> Password1,
      confirm_password |-> Password1] : e \in {EmailA, EmailPaddedB}}

PlainLoginRequests ==
    [method : {"POST"}, email : {EmailA, EmailPaddedB}, password : {Password1}]

MovieRequests ==
    {GetRequest} \cup
    [method : {"POST"}, title : Titles, director : Directors, year : Years]

MovieIds == {NewId("m", n) : n \in 0 .. MaxMovies}

(* ------------------------------- forms -------------------------------- *)
\* An email field (the same in all four forms that have one): its data is the
\* submitted value passed through the filter, and InputRequired() and Email()
\* judge it.  Both are tabulated over the values a request can carry.
EmailInputs == GoodEmails \cup {EmailB, EmailC, EmailBad, Empty}

EmailData == [raw \in EmailInputs |-> Normalize(raw)]

EmailFieldOk ==
    [raw \in EmailInputs |-> InputRequired(raw) /\ IsEmail(Normalize(raw))]

\* RegisterForm: field validators, then the inline validate_email lookup.
RegisterFormValid(req) ==
    /\ EmailFieldOk[req.email]
    /\ FindUserByEmail(EmailData[req.email]) = 0
    /\ InputRequired(req.password)
    /\ LengthOk(req.password)
    /\ InputRequired(req.confirm_password)
    /\ req.confirm_password = req.password

LoginFormValid(req) ==
    /\ EmailFieldOk[req.email]
    /\ InputRequired(req.password)

RequestResetFormValid(req) ==
    /\ EmailFieldOk[req.email]

ResetPasswordFormValid(req) ==
    /\ InputRequired(req.password)
    /\ LengthOk(req.password)
    /\ InputRequired(req.confirm_password)
    /\ req.confirm_password = req.password

\* UpdateAccountForm without its validate_email
UpdateAccountFormNoLookup(s, req) ==
    /\ EmailFieldOk[req.email]
    /\ InputRequired(req.password)

\* UpdateAccountForm: the store is consulted only when the submitted email
\* differs from the session's.
UpdateAccountFormValid(s, req) ==
    /\ EmailFieldOk[req.email]
    /\ \/ EmailData[req.email] = session[s]["email"]
       \/ FindUserByEmail(EmailData[req.email]) = 0
    /\ InputRequired(req.password)

MovieFormValid(req) ==
    /\ req.title # ""
    /\ req.director # ""
    /\ YearOk(req.year)

\* form.validate_on_submit()
Submitted(req, valid) == req.method = "POST" /\ valid

(* --------------------------- account routes --------------------------- *)
\* register
Register(s, req) ==
    /\ IF ~Anonymous(s)
       THEN /\ resp' = Redirect("register", "index", NoFlash)
            /\ UNCHANGED users
       ELSE IF Submitted(req, RegisterFormValid(req))
       THEN /\ Len(users) < MaxUsers
            /\ users' = Append(users, NewUser(EmailData[req.email], req.password))
            /\ resp' = Redirect("register", "login",
                                Flash("User registered successfully!", "success"))
       ELSE /\ resp' = Render("register", "register.html", NoFlash)
            /\ UNCHANGED users
    /\ UNCHANGED <<movies, session, outbox, now, pending>>

\* register, first half: the form is validated against the store as it is now
RegisterValidate(s, req) ==
    /\ Len(users) + Cardinality({t \in Sessions : pending[t] # <<>>}) < MaxUsers
    /\ pending[s] = <<>>
    /\ Anonymous(s)
    /\ Submitted(req, RegisterFormValid(req))
    /\ pending' = [pending EXCEPT ![s] =
                      <<[email |-> EmailData[req.email], password |-> req.password]>>]
    /\ resp' = Render("register", "validated", NoFlash)
    /\ UNCHANGED <<users, movies, session, outbox, now>>

\* register, second half, with the lookup repeated at insert time
RegisterInsertRechecked(s) ==
    /\ pending[s] # <<>>
    /\ IF FindUserByEmail(pending[s][1].email) = 0
       THEN /\ users' = Append(users, NewUser(pending[s][1].email,
                                              pending[s][1].password))
            /\ resp' = Redirect("register", "login",
                                Flash("User registered successfully!", "success"))
       ELSE /\ resp' = Render("register", "register.html", NoFlash)
            /\ UNCHANGED users
    /\ pending' = [pending EXCEPT ![s] = <<>>]
    /\ UNCHANGED <<movies, session, outbox, now>>

\* register, second half: the validated user is hashed and inserted
RegisterInsert(s) ==
    /\ pending[s] # <<>>
    /\ users' = Append(users, NewUser(pending[s][1].email, pending[s][1].password))
    /\ pending' = [pending EXCEPT ![s] = <<>>]
    /\ resp' = Redirect("register", "login",
                        Flash("User registered successfully!", "success"))
    /\ UNCHANGED <<movies, session, outbox, now>>

\* login that signs in whoever names a registered email
LoginSessionNoPassword(s, req) ==
    IF ~Anonymous(s) \/ ~Submitted(req, LoginFormValid(req))
    THEN session[s]
    ELSE LET i == FindUserByEmail(EmailData[req.email])
         IN  IF i # 0
             THEN SetKey(SetKey(session[s], "user_id", users[i]._id),
                         "email", users[i].email)
             ELSE session[s]

\* login: the session and the response a request leaves behind
LoginSession(s, req) ==
    IF ~Anonymous(s) \/ ~Submitted(req, LoginFormValid(req))
    THEN session[s]
    ELSE LET i == FindUserByEmail(EmailData[req.email])
         IN  IF i # 0 /\ Verify(req.password, users[i].password)
             THEN SetKey(SetKey(session[s], "user_id", users[i]._id),
                         "email", users[i].email)
             ELSE session[s]

LoginResp(s, req) ==
    IF ~Anonymous(s)
    THEN Redirect("login", "index", NoFlash)
    ELSE IF ~Submitted(req, LoginFormValid(req))
    THEN Render("login", "login.html", NoFlash)
    ELSE LET i == FindUserByEmail(EmailData[req.email])
         IN  IF i = 0
             THEN Redirect("login", "login", LoginFailed)
             ELSE IF Verify(req.password, users[i].password)
             THEN Redirect("login", "index", NoFlash)
             ELSE Render("login", "login.html", LoginFailed)

Login(s, req) ==
    /\ session' = [session EXCEPT ![s] = LoginSession(s, req)]
    /\ resp' = LoginResp(s, req)
    /\ UNCHANGED <<users, movies, outbox, now, pending>>

\* account (behind login_required)
Account(s, req) ==
    /\ IF Anonymous(s)
       THEN /\ resp' = Redirect("account", "login", NoFlash)
            /\ UNCHANGED <<users, session>>
       ELSE IF ~Submitted(req, UpdateAccountFormValid(s, req))
       THEN /\ resp' = Render("account", "account.html", NoFlash)
            /\ UNCHANGED <<users, session>>
       ELSE LET i == FindUserByEmail(session[s]["email"])
            IN  IF i = 0
                THEN \* User(**None) raises TypeError
                     /\ resp' = ServerError("account")
                     /\ UNCHANGED <<users, session>>
                ELSE IF Verify(req.password, users[i].password)
                THEN /\ users' = UpdateUserEmail(users[i]._id, EmailData[req.email])
                     /\ session' = [session EXCEPT ![s] =
                                       SetKey(@, "email", EmailData[req.email])]
                     /\ resp' = Redirect("account", "account",
                                   Flash("Your account has been updated!", "success"))
                ELSE /\ resp' = Render("account", "account.html",
                                   Flash("Incorrect password. Please try again.", "danger"))
                     /\ UNCHANGED <<users, session>>
    /\ UNCHANGED <<movies, outbox, now, pending>>

\* logout with session.clear() alone
LogoutClearAll(s) ==
    /\ session' = [session EXCEPT ![s] = <<>>]
    /\ resp' = Redirect("logout", "login", NoFlash)
    /\ UNCHANGED <<users, movies, outbox, now, pending>>

\* logout
Logout(s) ==
    /\ session' = [session EXCEPT ![s] = SetKey(<<>>, "theme", Get(s, "theme"))]
    /\ resp' = Redirect("logout", "login", NoFlash)
    /\ UNCHANGED <<users, movies, outbox, now, pending>>

\* toggle_theme
ToggleTheme(s) ==
    /\ session' = [session EXCEPT ![s] =
                      SetKey(@, "theme", IF Get(s, "theme") = "dark" THEN "light" ELSE "dark")]
    /\ resp' = Redirect("toggle_theme", "current_page", NoFlash)
    /\ UNCHANGED <<users, movies, outbox, now, pending>>

(* ------------------------- password reset routes ---------------------- *)
\* send_reset_email: the message handed to mail.send
ResetMail(u) == [recipients |-> u.email, token |-> GetResetToken(u)]

\* reset_request that tells the visitor when the email is not registered
ResetRequestRevealing(s, req) ==
    /\ IF ~Anonymous(s)
       THEN /\ resp' = Redirect("reset_request", "index", NoFlash)
            /\ UNCHANGED outbox
       ELSE IF ~Submitted(req, RequestResetFormValid(req))
       THEN /\ resp' = Render("reset_request", "reset_request.html", NoFlash)
            /\ UNCHANGED outbox
       ELSE LET i == FindUserByEmail(EmailData[req.email])
            IN  IF i # 0
                THEN /\ \/ ResetMail(users[i]) \in outbox
                        \/ Cardinality(outbox) < MaxMail
                     /\ outbox' = outbox \cup {ResetMail(users[i])}
                     /\ resp' = Redirect("reset_request", "login", ResetSent)
                ELSE /\ UNCHANGED outbox
                     /\ resp' = Redirect("reset_request", "reset_request",
                                   Flash("There is no account with that email.", "warning"))
    /\ UNCHANGED <<users, movies, session, now, pending>>

\* reset_request
ResetRequest(s, req) ==
    /\ IF ~Anonymous(s)
       THEN /\ resp' = Redirect("reset_request", "index", NoFlash)
            /\ UNCHANGED outbox
       ELSE IF ~Submitted(req, RequestResetFormValid(req))
       THEN /\ resp' = Render("reset_request", "reset_request.html", NoFlash)
            /\ UNCHANGED outbox
       ELSE LET i == FindUserByEmail(EmailData[req.email])
            IN  /\ IF i # 0
                   THEN /\ \/ ResetMail(users[i]) \in outbox
                           \/ Cardinality(outbox) < MaxMail
                        /\ outbox' = outbox \cup {ResetMail(users[i])}
                   ELSE UNCHANGED outbox
                /\ resp' = Redirect("reset_request", "login", ResetSent)
    /\ UNCHANGED <<users, movies, session, now, pending>>

\* User.verify_reset_token: the index of the user, 0 for None, -1 when
\* User(**None) raises outside the try block.
VerifyResetToken(token) ==
    LET id == LoadsUserId(token)
    IN  IF id = "None" THEN 0
        ELSE IF FindUserById(id) = 0 THEN -1 ELSE FindUserById(id)

\* what a client can put in the URL: a mailed token, a mailed token with its
\* payload or its timestamp changed, a token signed with another key
KnownIds == {users[i]._id : i \in 1 .. Len(users)}

MailedTokens == {m.token : m \in outbox}

AlteredTokens ==
    {[t EXCEPT !.payload = [user_id |-> id]] : t \in MailedTokens, id \in KnownIds}
    \cup {[t EXCEPT !.ts = now] : t \in MailedTokens}

ForgedTokens == {Dumps("guess", [user_id |-> id], now) : id \in KnownIds}

PresentedTokens == MailedTokens \cup AlteredTokens \cup ForgedTokens

\* reset_token
ResetToken(s, token, req) ==
    /\ IF ~Anonymous(s)
       THEN /\ resp' = Redirect("reset_token", "index", NoFlash)
            /\ UNCHANGED users
       ELSE LET i == VerifyResetToken(token)
            IN  IF i = -1
                THEN /\ resp' = ServerError("reset_token")
                     /\ UNCHANGED users
                ELSE IF i = 0
                THEN /\ resp' = Redirect("reset_token", "reset_request",
                                   Flash("That is an invalid or expired token", "warning"))
                     /\ UNCHANGED users
                ELSE IF Submitted(req, ResetPasswordFormValid(req))
                THEN /\ users' = UpdateUserPassword(users[i]._id, Hash(req.password))
                     /\ resp' = Redirect("reset_token", "login",
                                   Flash("Your password has been updated! You can now log in.",
                                         "success"))
                ELSE /\ resp' = Render("reset_token", "reset_token.html", NoFlash)
                     /\ UNCHANGED users
    /\ UNCHANGED <<movies, session, outbox, now, pending>>

(* ---------------------------- movie routes ---------------------------- *)
\* index (behind login_required)
Index(s) ==
    /\ resp' = IF Anonymous(s) THEN Redirect("index", "login", NoFlash)
               ELSE IF FindUserByEmail(session[s]["email"]) = 0
               THEN ServerError("index")
               ELSE Render("index", "index.html", NoFlash)
    /\ UNCHANGED <<users, movies, session, outbox, now, pending>>

\* Movie(_id=uuid4().hex, title, director, year) with the dataclass defaults
NewMovie(req) ==
    [_id |-> NewId("m", Len(movies)), title |-> req.title,
     director |-> req.director, year |-> req.year,
     last_watched |-> <<>>, rating |-> 0]

\* add_movie (behind login_required)
AddMovie(s, req) ==
    /\ IF Anonymous(s)
       THEN /\ resp' = Redirect("add_movie", "login", NoFlash)
            /\ UNCHANGED <<users, movies>>
       ELSE IF Submitted(req, MovieFormValid(req))
       THEN /\ Len(movies) < MaxMovies
            /\ movies' = Append(movies, NewMovie(req))
            /\ users' = PushUserMovie(session[s]["user_id"], NewMovie(req)._id)
            /\ resp' = Redirect("add_movie", "movie_added", NoFlash)
       ELSE /\ resp' = Render("add_movie", "new_movie.html", NoFlash)
            /\ UNCHANGED <<users, movies>>
    /\ UNCHANGED <<session, outbox, now, pending>>

\* edit_movie (behind login_required)
EditMovie(s, id, req) ==
    /\ IF Anonymous(s)
       THEN /\ resp' = Redirect("edit_movie", "login", NoFlash)
            /\ UNCHANGED movies
       ELSE LET i == FindMovieById(id)
            IN  IF i = 0
                THEN \* Movie(**None) raises TypeError
                     /\ resp' = ServerError("edit_movie")
                     /\ UNCHANGED movies
                ELSE IF Submitted(req, MovieFormValid(req))
                THEN /\ movies' = [movies EXCEPT ![i].title = req.title,
                                                 ![i].director = req.director,
                                                 ![i].year = req.year]
                     /\ resp' = Redirect("edit_movie", "movie", NoFlash)
                ELSE /\ resp' = Render("edit_movie", "movie_form.html", NoFlash)
                     /\ UNCHANGED movies
    /\ UNCHANGED <<users, session, outbox, now, pending>>

\* rate_movie without the login_required decorator
RateMovieOpen(s, id, rating) ==
    /\ LET i == FindMovieById(id)
       IN  /\ movies' = IF i = 0 THEN movies
                        ELSE [movies EXCEPT ![i].rating = rating]
           /\ resp' = Redirect("rate_movie", "movie", NoFlash)
    /\ UNCHANGED <<users, session, outbox, now, pending>>

\* rate_movie (behind login_required)
RateMovie(s, id, rating) ==
    /\ IF Anonymous(s)
       THEN /\ resp' = Redirect("rate_movie", "login", NoFlash)
            /\ UNCHANGED movies
       ELSE LET i == FindMovieById(id)
            IN  /\ movies' = IF i = 0 THEN movies
                             ELSE [movies EXCEPT ![i].rating = rating]
                /\ resp' = Redirect("rate_movie", "movie", NoFlash)
    /\ UNCHANGED <<users, session, outbox, now, pending>>

\* watch_today (behind login_required)
WatchToday(s, id) ==
    /\ IF Anonymous(s)
       THEN /\ resp' = Redirect("watch_today", "login", NoFlash)
            /\ UNCHANGED movies
       ELSE LET i == FindMovieById(id)
            IN  /\ movies' = IF i = 0 THEN movies
                             ELSE [movies EXCEPT ![i].last_watched = <<now>>]
                /\ resp' = Redirect("watch_today", "movie", NoFlash)
    /\ UNCHANGED <<users, session, outbox, now, pending>>

\* movie and movie_added: open to any visitor, read only
ViewMovie(route, id) ==
    /\ route \in {"movie", "movie_added"}
    /\ resp' = IF FindMovieById(id) = 0 THEN ServerError(route)
               ELSE Render(route, "movie", NoFlash)
    /\ UNCHANGED <<users, movies, session, outbox, now, pending>>

\* time passes between requests
Tick(t) ==
    /\ t \in ClockValues
    /\ t > now
    /\ now' = t
    /\ resp' = Render("start", "none", NoFlash)
    /\ UNCHANGED <<users, movies, session, outbox, pending>>

(* --------------------------- specifications --------------------------- *)
\* Accounts: the routes that write a user's email or give a session its
\* identity, and the index page that reads both; each request is handled in
\* one step.
Next ==
    \/ \E s \in Browsers, req \in RegisterRequests : Register(s, req)
    \/ \E s \in Sessions, req \in LoginRequests : Login(s, req)
    \/ \E s \in Sessions, req \in AccountRequests : Account(s, req)
    \/ \E s \in Sessions : Index(s)

Spec == Init /\ [][Next]_vars

\* The account lifecycle with register's lookup and insert as separate steps,
\* so that requests of different sessions interleave between them.
NextRace ==
    \/ \E s \in Sessions, req \in LoginRequests : Login(s, req)
    \/ \E s \in Sessions : Index(s)
    \/ \E s \in Sessions, req \in RegisterRequests : RegisterValidate(s, req)
    \/ \E s \in Sessions : RegisterInsert(s)

SpecRace == Init /\ [][NextRace]_vars

\* Password reset: registration, login, the two reset routes and the clock.
NextReset ==
    \/ \E s \in Browsers, req \in PlainRegisterRequests : Register(s, req)
    \/ \E s \in Sessions, req \in LoginRequests : Login(s, req)
    \/ \E s \in Sessions, req \in ResetRequests : ResetRequest(s, req)
    \/ \E s \in Sessions, token \in PresentedTokens, req \in ResetPasswordRequests :
          ResetToken(s, token, req)
    \/ \E t \in ClockValues : Tick(t)

SpecReset == Init /\ [][NextReset]_vars

\* The movie routes and the login gate in front of them.
NextMovies ==
    \/ \E s \in Browsers, req \in PlainRegisterRequests : Register(s, req)
    \/ \E s \in Sessions, req \in PlainLoginRequests : Login(s, req)
    \/ \E s \in Sessions, req \in PlainLoginRequests : Account(s, req)
    \/ \E s \in Sessions : Index(s)
    \/ \E s \in Sessions, req \in MovieRequests : AddMovie(s, req)
    \/ \E s \in Sessions, id \in MovieIds, req \in MovieRequests : EditMovie(s, id, req)
    \/ \E s \in Sessions, id \in MovieIds, r \in Ratings : RateMovie(s, id, r)
    \/ \E s \in Sessions, id \in MovieIds : WatchToday(s, id)
    \/ \E route \in {"movie", "movie_added"}, id \in MovieIds : ViewMovie(route, id)

SpecMovies == Init /\ [][NextMovies]_vars

\* Sessions and their theme flag.
NextTheme ==
    \/ \E s \in Browsers, req \in RegisterRequests : Register(s, req)
    \/ \E s \in Sessions, req \in LoginRequests : Login(s, req)
    \/ \E s \in Sessions : Logout(s)
    \/ \E s \in Sessions : ToggleTheme(s)

SpecTheme == Init /\ [][NextTheme]_vars

(* ------------------------------- claims ------------------------------- *)
\* "trims and lowercases", spelled out independently of the forms' filter
TrimLowerOf(v) ==
    LET blanks == {i \in 1 .. Len(v) : v[i] # " "}
        body == IF blanks = {} THEN <<>>
                ELSE SubSeq(v, Min(blanks),
                            CHOOSE m \in blanks : \A k \in blanks : k <= m)
    IN  [i \in 1 .. Len(body) |->
            IF body[i] = "A" THEN "a" ELSE IF body[i] = "B" THEN "b" ELSE body[i]]

TrimLower == [v \in EmailInputs |-> TrimLowerOf(v)]

\* the trimmed, lowercased inputs that are well-formed addresses
WellFormed == {e \in {TrimLower[v] : v \in EmailInputs} : IsEmail(e)}

LastUser == users[Len(users)]

\* C1: a successful register(e, p, p) leaves the session Anonymous, and a
\* login(e', p) right after it, from any Anonymous session and with any e'
\* that trims and lowercases to the same string as e, gives that session the
\* user_id and email of the newly inserted user and redirects to index.
C1_RegisterThenLogin ==
    [][resp'.route = "register" =>
       \A s \in Browsers, req \in RegisterRequests :
          (/\ Anonymous(s)
           /\ req.method = "POST"
           /\ Len(req.password) >= 8
           /\ req.confirm_password = req.password
           /\ TrimLower[req.email] \in WellFormed
           /\ FindUserByEmail(TrimLower[req.email]) = 0
           /\ Register(s, req))
          => /\ session' = session
             /\ resp'.status = "redirect" /\ resp'.target = "login"
             /\ Len(users') = Len(users) + 1
             /\ (\A s2 \in Sessions, e2 \in EmailInputs :
                    (Anonymous(s2) /\ TrimLower[e2] = TrimLower[req.email])
                    => LET login == [method |-> "POST", email |-> e2,
                                     password |-> req.password]
                           after == LoginSession(s2, login)
                       IN  /\ {"user_id", "email"} \subseteq DOMAIN after
                           /\ after["user_id"] = LastUser._id
                           /\ after["email"] = LastUser.email
                           /\ LoginResp(s2, login) =
                                 Redirect("login", "index", NoFlash))'
      ]_vars

\* C1 witness: a login has just put a session into the identity of the user
\* registered last, whose stored email is lowercase
C1_Witness ==
    /\ users # <<>>
    /\ resp = Redirect("login", "index", NoFlash)
    /\ \E s \in Sessions :
          /\ Authenticated(s)
          /\ session[s]["user_id"] = LastUser._id
          /\ session[s]["email"] = LastUser.email
          /\ LastUser.email = EmailA

\* C2: with every request handled in one step, no two user records have the
\* same email after any sequence of register and account-update requests.
C2_UniqueEmails ==
    \A i, j \in 1 .. Len(users) : users[i].email = users[j].email => i = j

\* C2 witness: an account update has gone through with two users stored
C2_Witness ==
    /\ Len(users) = 2
    /\ resp.route = "account" /\ resp.status = "redirect" /\ resp.target = "account"

RegisterDone ==
    Redirect("register", "login", Flash("User registered successfully!", "success"))

\* C3: when two register requests with the same unused email have both run
\* the uniqueness lookup before either inserts, the first insert succeeds and
\* leaves the other request in flight, and the second succeeds too, so that the
\* store holds two records with distinct identifiers and that same email.
C3_RaceBothInsert ==
    [][resp'.route = "register" =>
       \A s \in Sessions :
          (pending[s] # <<>> /\ RegisterInsert(s))
          => LET e == pending[s][1].email
             IN  /\ (\A t \in Sessions \ {s} :
                        (pending[t] # <<>> /\ pending[t][1].email = e)
                        => /\ resp' = RegisterDone
                           /\ users'[Len(users')].email = e
                           /\ pending'[t] = pending[t])
                 /\ (\A i \in 1 .. Len(users) :
                        users[i].email = e
                        => /\ resp' = RegisterDone
                           /\ Len(users') = Len(users) + 1
                           /\ users'[i] = users[i]
                           /\ users'[Len(users')].email = e
                           /\ users'[Len(users')]._id # users[i]._id)
      ]_vars

\* C3 witness: both racing registrations are done and two records with
\* distinct identifiers hold the same email
C3_Witness ==
    /\ resp = RegisterDone
    /\ \A s \in Sessions : pending[s] = <<>>
    /\ \E i, j \in 1 .. Len(users) :
          /\ users[i].email = users[j].email
          /\ users[i]._id # users[j]._id

ProtectedRoutes ==
    {"index", "account", "add_movie", "edit_movie", "rate_movie", "watch_today"}

\* a request of session s to one of the six routes behind login_required
ProtectedRequest(s) ==
    \/ Index(s)
    \/ \E req \in AccountRequests : Account(s, req)
    \/ \E req \in MovieRequests : AddMovie(s, req)
    \/ \E id \in MovieIds, req \in MovieRequests : EditMovie(s, id, req)
    \/ \E id \in MovieIds, r \in Ratings : RateMovie(s, id, r)
    \/ \E id \in MovieIds : WatchToday(s, id)

\* C4: a request to a protected route from an Anonymous session is answered
\* with a redirect to login, and the user store, the movie store and the
\* sessions are unchanged.
C4_LoginRequired ==
    [][resp'.route \in ProtectedRoutes =>
       \A s \in Sessions :
          (Anonymous(s) /\ ProtectedRequest(s))
          => /\ resp'.status = "redirect"
             /\ resp'.target = "login"
             /\ users' = users
             /\ movies' = movies
             /\ session' = session
      ]_vars

\* C4 witness: a visitor without identity asked to rate a stored movie and
\* was sent to login, the movie still unrated
C4_Witness ==
    /\ resp = Redirect("rate_movie", "login", NoFlash)
    /\ movies # <<>>
    /\ movies[1].rating = 0
    /\ \E s \in Sessions : Anonymous(s)

\* C5: a session gets an identity only in a login step whose trimmed and
\* lowercased email is that of a stored user and whose password verifies
\* against that user's hash; a login that names no stored user or fails the
\* verification leaves the sessions as they were, and both failures flash the
\* same message with the same category.
C5_LoginOnly ==
    [][/\ \A s \in Sessions :
             (Anonymous(s) /\ ~Anonymous(s)')
             => \E req \in LoginRequests :
                   /\ req.method = "POST"
                   /\ Login(s, req)
                   /\ \E i \in 1 .. Len(users) :
                         /\ users[i].email = TrimLower[req.email]
                         /\ Verify(req.password, users[i].password)
                         /\ session'[s]["user_id"] = users[i]._id
                         /\ session'[s]["email"] = users[i].email
       /\ resp'.route = "login" =>
             \A s \in Sessions, req \in LoginRequests :
                (/\ Anonymous(s)
                 /\ req.method = "POST"
                 /\ Login(s, req)
                 /\ \A i \in 1 .. Len(users) :
                       users[i].email = TrimLower[req.email]
                       => ~Verify(req.password, users[i].password))
                => /\ session' = session
                   /\ (IsEmail(TrimLower[req.email]) /\ Len(req.password) > 0)
                      => resp'.flash = LoginFailed
      ]_vars

\* C5 witness: a wrong password for a registered email was turned away with
\* the login-failed message
C5_Witness ==
    /\ resp = Render("login", "login.html", LoginFailed)
    /\ users # <<>>
    /\ \E s \in Sessions : Anonymous(s)

\* C6: a valid reset_request submission from an Anonymous session gets the
\* same flash and the same redirect (login) whether or not the email is
\* registered; a token is mailed exactly when it is, to that user and for
\* that user; the user store is unchanged either way.
C6_ResetRequestUniform ==
    [][resp'.route = "reset_request" =>
       \A s \in Sessions, req \in ResetRequests :
          (/\ Anonymous(s)
           /\ req.method = "POST"
           /\ IsEmail(TrimLower[req.email])
           /\ ResetRequest(s, req))
          => /\ resp' = Redirect("reset_request", "login", ResetSent)
             /\ users' = users
             /\ IF \E i \in 1 .. Len(users) : users[i].email = TrimLower[req.email]
                THEN \E i \in 1 .. Len(users) :
                        /\ users[i].email = TrimLower[req.email]
                        /\ outbox' = outbox \cup
                              {[recipients |-> users[i].email,
                                token |-> Dumps(SECRET_KEY, [user_id |-> users[i]._id], now)]}
                ELSE outbox' = outbox
      ]_vars

\* C6 witness: with a user registered, a request for an unregistered email
\* was answered with the email-sent message and nothing was mailed
C6_Witness ==
    /\ resp = Redirect("reset_request", "login", ResetSent)
    /\ users # <<>>
    /\ outbox = {}

\* C7: the token of get_reset_token verifies to the user it was issued for
\* while no more than 1800 seconds have passed, and to None, without raising,
\* after that, and so does every altered token and every token signed with
\* another key.
C7_TokenRoundTrip ==
    /\ \A i \in 1 .. Len(users) : VerifyResetToken(GetResetToken(users[i])) = i
    /\ \A m \in outbox :
          IF now - m.token.ts <= 1800
          THEN /\ VerifyResetToken(m.token) > 0
               /\ users[VerifyResetToken(m.token)].email = m.recipients
          ELSE VerifyResetToken(m.token) = 0
    /\ \A t \in (AlteredTokens \ MailedTokens) \cup ForgedTokens :
          VerifyResetToken(t) = 0

\* C7 witness: a mailed token has outlived its 1800 seconds
C7_Witness ==
    \E m \in outbox : now - m.token.ts > 1800 /\ VerifyResetToken(m.token) = 0

\* the index of the user a token names, whatever its signature or age
TokenUser(token) == FindUserById(token.payload.user_id)

\* C8: reset_token changes stored state only for a valid token with a valid
\* new-password form, and then only the password hash of the user the token
\* names; an invalid or expired token gets the warning and the redirect to
\* reset_request, and nothing changes.
C8_ResetTokenFrame ==
    [][resp'.route = "reset_token" =>
       LET presented == PresentedTokens
           mailed == MailedTokens
       IN
       /\ movies' = movies
       /\ session' = session
       /\ resp'.target \in {"reset_request", "index"}
          => /\ users' = users
             /\ resp'.target = "reset_request"
                => resp' = Redirect("reset_token", "reset_request",
                              Flash("That is an invalid or expired token", "warning"))
       /\ users' # users
          => \A s \in Sessions :
                ~Anonymous(s)
                => \A token \in presented, req \in ResetPasswordRequests :
                      ~ResetToken(s, token, req)
       /\ resp'.target \notin {"reset_request", "index"}
          => \A s \in Sessions :
                Anonymous(s)
                => \A token \in presented, req \in ResetPasswordRequests :
                      ResetToken(s, token, req)
                      => LET formOk == /\ req.method = "POST"
                                       /\ Len(req.password) >= 8
                                       /\ req.confirm_password = req.password
                         IN  /\ token \in mailed
                             /\ now - token.ts <= 1800
                             /\ users' # users => formOk
                             /\ formOk
                                => /\ users' = [users EXCEPT ![TokenUser(token)].password =
                                                                Hash(req.password)]
                                   /\ Verify(req.password,
                                             users'[TokenUser(token)].password)
                                   /\ \A i \in 1 .. Len(users) :
                                         /\ users'[i]._id = users[i]._id
                                         /\ users'[i].email = users[i].email
                                         /\ users'[i].movies = users[i].movies
                                         /\ i # TokenUser(token) => users'[i] = users[i]
      ]_vars

\* C8 witness: a reset has replaced the password of the first user while a
\* second user keeps the password registered with
C8_Witness ==
    /\ resp.route = "reset_token" /\ resp.target = "login"
    /\ Len(users) = 2
    /\ users[1].password = Hash(Password2)
    /\ users[2].password = Hash(Password1)

\* the index of the user who logged in to session s
LoggedInUser(s) == FindUserById(session[s]["user_id"])

AccountUpdated ==
    Redirect("account", "account", Flash("Your account has been updated!", "success"))

\* C9: an account update changes an email only when the submitted password
\* verifies against the hash of the user logged in to the session; on success
\* that user's stored email and the session email are the new normalized
\* email; on a wrong password the user store and the sessions are unchanged.
C9_AccountReauth ==
    [][resp'.route = "account" =>
       \A s \in Sessions, req \in AccountRequests :
          (Authenticated(s) /\ Account(s, req))
          => LET u == LoggedInUser(s)
             IN  /\ (\E i \in 1 .. Len(users) : users'[i].email # users[i].email)
                    => /\ req.method = "POST"
                       /\ Verify(req.password, users[u].password)
                 /\ resp' = AccountUpdated
                    => /\ users'[u].email = TrimLower[req.email]
                       /\ session'[s]["email"] = TrimLower[req.email]
                 /\ (req.method = "POST" /\ ~Verify(req.password, users[u].password))
                    => users' = users /\ session' = session
      ]_vars

\* C10: logout, from any session state, leaves the session without user_id
\* and email and with the theme it had (a "dark" theme stays "dark"), and
\* changes neither store nor any other session.
C10_LogoutKeepsTheme ==
    [][resp'.route = "logout" =>
       \A s \in Sessions :
          Logout(s)
          => /\ "user_id" \notin DOMAIN session'[s]
             /\ "email" \notin DOMAIN session'[s]
             /\ Get(s, "theme")' = Get(s, "theme")
             /\ Get(s, "theme") = "dark" => session'[s]["theme"] = "dark"
             /\ \A t \in Sessions \ {s} : session'[t] = session[t]
             /\ users' = users
             /\ movies' = movies
      ]_vars

\* C10 witness: after a logout a session holds a dark theme and no identity,
\* while the account it could have used is stored
C10_Witness ==
    /\ resp = Redirect("logout", "login", NoFlash)
    /\ users # <<>>
    /\ \E s \in Sessions : session[s] = ("theme" :> "dark")

\* C11: an add_movie or edit_movie submission with year 1877 or lower is
\* answered with the form again and writes nothing; one with year 1878 and a
\* title and director is written with that year; and after every step of add,
\* edit, rate and watch every stored movie has year >= 1878.
C11_YearFloor ==
    [][/\ \A i \in 1 .. Len(movies') : movies'[i].year >= 1878
       /\ resp'.route = "add_movie"
          => \A s \in Sessions, req \in MovieRequests :
                (Authenticated(s) /\ req.method = "POST" /\ AddMovie(s, req))
                => /\ req.year <= 1877
                      => /\ movies' = movies
                         /\ users' = users
                         /\ resp' = Render("add_movie", "new_movie.html", NoFlash)
                   /\ (req.year = 1878 /\ req.title # "" /\ req.director # "")
                      => /\ Len(movies') = Len(movies) + 1
                         /\ movies'[Len(movies')].year = 1878
                         /\ resp'.status = "redirect"
       /\ resp'.route = "edit_movie"
          => \A s \in Sessions, id \in MovieIds, req \in MovieRequests :
                (/\ Authenticated(s)
                 /\ \E i \in 1 .. Len(movies) : movies[i]._id = id
                 /\ req.method = "POST"
                 /\ EditMovie(s, id, req))
                => /\ req.year <= 1877
                      => /\ movies' = movies
                         /\ users' = users
                         /\ resp' = Render("edit_movie", "movie_form.html", NoFlash)
                   /\ (req.year = 1878 /\ req.title # "" /\ req.director # "")
                      => /\ \E i \in 1 .. Len(movies') :
                               movies'[i]._id = id /\ movies'[i].year = 1878
                         /\ resp'.status = "redirect"
      ]_vars

\* C11 witness: a stored movie of year 1878 has been rated and watched, and
\* an edit of it has been answered with the form again
C11_Witness ==
    /\ resp = Render("edit_movie", "movie_form.html", NoFlash)
    /\ movies # <<>>
    /\ movies[1].year = 1878
    /\ movies[1].rating = 5
    /\ movies[1].last_watched # <<>>

\* C12: in every reachable state the email of each Authenticated session
\* finds a stored user, and that user's identifier is the session's user_id,
\* also when one user is signed in from several sessions.
C12_SessionIdentity ==
    \A s \in Sessions :
       Authenticated(s)
       => /\ FindUserByEmail(session[s]["email"]) # 0
          /\ users[FindUserByEmail(session[s]["email"])]._id = session[s]["user_id"]
====
